---- MODULE Spec2Model ----
(***************************************************************************)
(* Model of the oddio rendering core: Frames (rate-tagged sample buffer),  *)
(* Cycle (looping signal), FramesSignal (one-shot playback) and Stop       *)
(* (lifecycle filter) with its StopControl handle.                         *)
(*                                                                         *)
(* Numbers.  Positions, times and frame values are fixed-point numbers:    *)
(* an integer n stands for the real n / Den.  Stored frames are integers   *)
(* (whole values); an output frame is in units of 1 / Den.  Within the     *)
(* bounds below every value is a small binary fraction, which f32 and f64  *)
(* represent exactly, so the float operations of the source are exact.     *)
(***************************************************************************)
EXTENDS Integers, Sequences, FiniteSets, TLC

\* ---------------------------------------------------------------- bounds
\* fixed-point resolution: 1 / Den of a sample, a second or a frame value
Den == 2
\* longest buffer
MaxLen == 3
\* largest stored frame value
MaxVal == 3
\* largest sample rate
MaxRate == 2
\* largest interval of a sample call, in units of 1 / Den seconds
MaxInterval == 2
\* longest out slice of one sample call
MaxOut == 3
\* most frames one Cycle writes over all its calls
MaxFrames == 5
\* most time one FramesSignal consumes, in units of 1 / Den seconds
MaxTime == 8
\* largest start offset (either sign), in units of 1 / Den seconds
MaxStart == 1

Vals == 1..MaxVal
\* rates for which a buffer's duration is a whole number of time units
Rates == {r \in 1..MaxRate : Den % r = 0}
Intervals == 1..MaxInterval
OutLens == 1..MaxOut
Starts == (0 - MaxStart)..MaxStart
SampleSeqs == UNION {[1..n -> Vals] : n \in 1..MaxLen}
\* interpolation positions from two samples before the buffer to two after
Positions == (0 - 2 * Den)..((MaxLen + 2) * Den)

VARIABLES
    frames,      \* the shared Frames: [rate, samples]
    obs,         \* the last from_slice / from_iter / interpolate call
    cursor,      \* Cycle.cursor
    cycleOut,    \* every frame the Cycle has written, in order
    cycleIv,     \* 0: no call yet; iv: every call used interval iv; -1: mixed
    cycleCalls,  \* number of Cycle::sample calls
    state,       \* Stop.state
    t,           \* FramesSignal.t (the Stop's inner signal)
    start,       \* start_seconds the FramesSignal was created with
    consumed,    \* sum of interval * len(out) over the FramesSignal's calls
    lastOp,      \* the most recent control operation on the Stop
    fsCall,      \* the last Stop::sample call: [called, st, t0, t1, s0,
                 \* interval, out]
    cycleLog,    \* one entry per frame the Cycle wrote: [c, ds, a, b]
    cyclePanic,  \* a slice index of Cycle::interpolate was out of range
    cycleAsked,  \* sum of len(out) over the Cycle::sample calls
    sigT,        \* t of a second FramesSignal on the same Frames
    sigOut,      \* every frame that FramesSignal has written, in order
    sigIv,       \* as cycleIv, for that FramesSignal
    sigCalls,    \* number of sample calls on that FramesSignal
    stored       \* the values stored into Stop.state so far, the initial one
                 \* included

vars == <<frames, obs, cursor, cycleOut, cycleIv, cycleCalls,
          state, t, start, consumed, lastOp, fsCall,
          cycleLog, cyclePanic, cycleAsked, sigT, sigOut, sigIv, sigCalls,
          stored>>

cycleVars == <<cursor, cycleOut, cycleIv, cycleCalls, cycleLog, cyclePanic,
               cycleAsked>>
stopVars == <<state, t, consumed, lastOp, fsCall>>
sigVars == <<sigT, sigOut, sigIv, sigCalls>>

\* ------------------------------------------------------------ frame (lerp)
\* T::ZERO
ZERO == 0

\* frame::lerp(a, b, t) = a + (b - a) * t, with t = num / Den; the result
\* is in units of 1 / Den
lerp(a, b, num) == a * Den + (b - a) * num

\* --------------------------------------------------------------- floats
\* f64::trunc / `as usize`-style truncation toward zero of p / Den
trunc(p) == IF p >= 0 THEN p \div Den ELSE 0 - ((0 - p) \div Den)

\* f64::fract: s - s.trunc(), carrying the sign of s; numerator over Den
fract(p) == p - trunc(p) * Den

\* u32 -> f64 (`rate.into()`): every u32 is an f64
F64FromU32(r) == r

\* f64 -> u32 (`self.rate as u32`): truncate, saturate.  The stored rate is
\* always a whole number written from a u32, so only the lower end is modelled.
U32FromF64(x) == IF x < 0 THEN 0 ELSE x

\* ---------------------------------------------------------------- Frames
\* from_slice with the copy loop one slot off: slot i takes sample i - 1
from_slice_shifted(rate, samples) ==
    [rate |-> F64FromU32(rate),
     samples |-> [i \in 1..Len(samples) |-> samples[IF i = 1 THEN 1 ELSE i - 1]]]

\* Frames::from_slice: write the rate header, copy sample i to payload slot i
from_slice(rate, samples) ==
    [rate |-> F64FromU32(rate),
     samples |-> [i \in 1..Len(samples) |-> samples[i]]]

\* Frames::rate
rate(f) == U32FromF64(f.rate)

\* Frames::get that wraps an index past the end instead of yielding silence
get_wrapping(f, sample) ==
    IF sample < 0 THEN ZERO
    ELSE f.samples[(sample % Len(f.samples)) + 1]

\* Frames::get (sample is a 0-based isize)
get(f, sample) ==
    IF sample < 0 THEN ZERO
    ELSE IF sample >= Len(f.samples) THEN ZERO
    ELSE f.samples[sample + 1]

\* Frames::interpolate with the two neighbours exchanged
interpolate_swapped(f, s) ==
    LET x0 == trunc(s)
        x1 == x0 + 1
    IN  lerp(get(f, x1), get(f, x0), fract(s))

\* Frames::interpolate (s in units of 1 / Den samples)
interpolate(f, s) ==
    LET x0 == trunc(s)
        x1 == x0 + 1
    IN  lerp(get(f, x0), get(f, x1), fract(s))

\* Frames::from_iter.  len is what the iterator declares (ExactSizeIterator::
\* len), items what it yields.  The loop writes payload slot i for every
\* yielded item, whatever len is, and only then compares n with len.  A write
\* at a slot >= len is outside the allocation: undefined behaviour, after
\* which the call either reaches the failing assert_eq (panic) or dies of
\* the corrupted heap (crash).  The set of possible outcomes.
from_iter(r, len, items) ==
    LET n == Len(items)
        written == {i \in 0..(n - 1) : TRUE}
        payload == [i \in 1..len |-> IF i <= n THEN items[i] ELSE ZERO]
        call == [op |-> "from_iter", len |-> len, n |-> n, written |-> written]
    IN  IF \E i \in written : i >= len
        THEN {call @@ [status |-> st, frames |-> <<>>] : st \in {"panic", "crash"}}
        ELSE IF n # len
        THEN {call @@ [status |-> "panic", frames |-> <<>>]}
        ELSE {call @@ [status |-> "ok",
                       frames |-> [rate |-> F64FromU32(r), samples |-> payload]]}

\* ---------------------------------------------------------- FramesSignal
\* FramesSignal::sample that advances t by interval, not interval * len(out)
FramesSignal_sample_oneStep(f, tt, interval, n) ==
    LET s0 == tt * f.rate
        ds == interval * f.rate
    IN  [t |-> tt + interval,
         out |-> [i \in 1..n |-> interpolate(f, s0 + ds * (i - 1))]]

\* FramesSignal::sample that takes slot i from ds * i, not from s0 + ds * i
FramesSignal_sample_fromZero(f, tt, interval, n) ==
    LET ds == interval * f.rate
    IN  [t |-> tt + interval * n,
         out |-> [i \in 1..n |-> interpolate(f, ds * (i - 1))]]

\* FramesSignal::sample that takes slot i from s0 + ds * (i + 1)
FramesSignal_sample_slotAhead(f, tt, interval, n) ==
    LET s0 == tt * f.rate
        ds == interval * f.rate
    IN  [t |-> tt + interval * n,
         out |-> [i \in 1..n |-> interpolate(f, s0 + ds * i)]]

\* FramesSignal::sample on a signal at t = tt, with an out of n slots: the t
\* it leaves and the frames it writes
FramesSignal_sample(f, tt, interval, n) ==
    LET s0 == tt * f.rate
        ds == interval * f.rate
    IN  [t |-> tt + interval * n,
         out |-> [i \in 1..n |-> interpolate(f, s0 + ds * (i - 1))]]

\* FramesSignal::remaining, in units of 1 / Den seconds (Rates makes the
\* division exact)
FramesSignal_remaining(f, tt) == (Len(f.samples) * Den) \div f.rate - tt

\* ------------------------------------------------------------------ Stop
PLAY == 0
PAUSE == 1
STOP == 2

\* an f32 result of remaining(): a finite value v / Den, or f32::INFINITY
Finite(v) == [inf |-> FALSE, v |-> v]
INFINITY == [inf |-> TRUE, v |-> 0]

\* Stop::remaining that treats Paused like Stopped
Stop_remaining_pausedZero ==
    IF state = PLAY THEN Finite(FramesSignal_remaining(frames, t))
    ELSE Finite(0)

\* Stop::remaining
Stop_remaining ==
    IF state = PLAY THEN Finite(FramesSignal_remaining(frames, t))
    ELSE IF state = PAUSE THEN INFINITY
    ELSE Finite(0)

\* Stop::sample that writes silence and leaves the inner signal alone unless
\* the state is Playing
Stop_sample_gated(st, f, tt, interval, n) ==
    IF st = PLAY THEN FramesSignal_sample(f, tt, interval, n)
    ELSE [t |-> tt, out |-> [i \in 1..n |-> ZERO]]

\* Stop::sample on a Stop in state st whose inner FramesSignal is at tt:
\* self.inner.sample(interval, out); the state is not read
Stop_sample_inner(st, f, tt, interval, n) == FramesSignal_sample(f, tt, interval, n)

\* is_paused that reports every state but Playing
is_paused_notPlaying == state # PLAY

\* Stop::is_paused, StopControl::is_paused
is_paused == state = PAUSE

\* Stop::is_stopped, StopControl::is_stopped
is_stopped == state = STOP

\* ------------------------------------------------------------------ Init
Init ==
    /\ frames \in {from_slice(r, s) : r \in Rates, s \in SampleSeqs}
    /\ obs = [op |-> "none"]
    /\ cursor = 0
    /\ cycleOut = <<>>
    /\ cycleIv = 0
    /\ cycleCalls = 0
    /\ state = PLAY
    /\ start \in Starts
    /\ t = start
    /\ consumed = 0
    /\ lastOp = "new"
    /\ fsCall = [called |-> FALSE]
    /\ cycleLog = <<>>
    /\ cyclePanic = FALSE
    /\ cycleAsked = 0
    /\ sigT = start
    /\ sigOut = <<>>
    /\ sigIv = 0
    /\ sigCalls = 0
    /\ stored = {PLAY}

\* Init with both FramesSignals created at offset 0: the initial states of
\* the specifications in which the start offset plays no part
InitZero == Init /\ start = 0

\* --------------------------------------------------------- Frames actions
\* The three Frames operations below are pure: obs records one call per
\* behaviour, from the state Init leaves.

\* a call of Frames::from_slice(r, s)
FromSlice ==
    /\ obs.op = "none"
    /\ \E r \in Rates, s \in SampleSeqs :
          obs' = [op |-> "from_slice", rate |-> r, samples |-> s,
                  frames |-> from_slice(r, s)]
    /\ UNCHANGED <<frames, cycleVars, stopVars, sigVars, start, stored>>

\* a call of Frames::from_iter(r, iter) with an iterator declaring len
FromIter ==
    /\ obs.op = "none"
    /\ \E r \in Rates, len \in 0..MaxLen,
          items \in UNION {[1..n -> Vals] : n \in 0..MaxLen} :
          obs' \in from_iter(r, len, items)
    /\ UNCHANGED <<frames, cycleVars, stopVars, sigVars, start, stored>>

\* a call of frames.interpolate(s)
Interpolate ==
    /\ obs.op = "none"
    /\ \E s \in Positions :
          obs' = [op |-> "interpolate", s |-> s, val |-> interpolate(frames, s)]
    /\ UNCHANGED <<frames, cycleVars, stopVars, sigVars, start, stored>>

NextFrames == FromSlice \/ FromIter \/ Interpolate

SpecFrames == InitZero /\ [][NextFrames]_vars

\* C4: Frames::interpolate returns the zero frame at position -0.5 and at
\* position length + 0.5, for every buffer with at least one frame.
C4_BoundarySilence ==
    (/\ obs.op = "interpolate"
     /\ obs.s \in {0 - Den \div 2, Len(frames.samples) * Den + Den \div 2})
    => obs.val = ZERO

\* C5: Frames::from_iter with an iterator that declares len and yields
\* another number of items fails fatally, writes no slot outside the len
\* slots it allocated and returns no buffer.
C5_FromIterMismatchFailsSafely ==
    (obs.op = "from_iter" /\ obs.n # obs.len)
    => /\ obs.status # "ok"
       /\ \A i \in obs.written : i < obs.len

\* C8: Frames::from_slice(rate, samples) yields a buffer of len(samples)
\* frames that read back, in order, as samples, and whose rate() is rate.
C8_FromSliceRoundTrip ==
    obs.op = "from_slice"
    => /\ Len(obs.frames.samples) = Len(obs.samples)
       /\ \A i \in 1..Len(obs.samples) : obs.frames.samples[i] = obs.samples[i]
       /\ rate(obs.frames) = obs.rate

\* from_slice(1, [1, 2, 3]) was called (tests::from_slice)
C8_Witness ==
    /\ obs.op = "from_slice"
    /\ obs.rate = 1
    /\ obs.samples = <<1, 2, 3>>

\* ----------------------------------------------------------------- Cycle
\* `sample as usize`: truncate toward zero, saturate at 0
AsUsize(p) == IF p < 0 THEN 0 ELSE p \div Den

\* frem that restarts the loop at 0 when the sum reaches the end
frem_resets(x, y) == IF x >= y THEN 0 ELSE x

\* f32 `%`: the remainder has the sign of the dividend
frem(x, y) == IF x >= 0 THEN x % y ELSE 0 - ((0 - x) % y)

\* the two indexes of Cycle::interpolate without the wrap of the second
Cycle_indexes_noWrap(f, sample) ==
    LET a == AsUsize(sample)
    IN  [a |-> a, b |-> a + 1]

\* the two slice indexes Cycle::interpolate computes (0-based)
Cycle_indexes(f, sample) ==
    LET a == AsUsize(sample)
    IN  [a |-> a, b |-> (a + 1) % Len(f.samples)]

\* the bounds check of a slice index, self.frames[i]: out of range panics
InRange(f, i) == i >= 0 /\ i < Len(f.samples)

\* Cycle::interpolate with the neighbour taken by Frames::get, which yields
\* silence past the end
Cycle_interpolate_zeroExtend(f, sample) ==
    LET ix == Cycle_indexes(f, sample)
    IN  lerp(f.samples[ix.a + 1], get(f, ix.a + 1), fract(sample))

\* Cycle::interpolate (both indexes in range)
Cycle_interpolate(f, sample) ==
    LET ix == Cycle_indexes(f, sample)
    IN  lerp(f.samples[ix.a + 1], f.samples[ix.b + 1], fract(sample))

\* what one slot of Cycle::sample reads: the cursor, the step and the indexes
Cycle_read(f, c, interval) ==
    LET ix == Cycle_indexes(f, c)
    IN  [c |-> c, interval |-> interval, ds |-> interval * rate(f),
         a |-> ix.a, b |-> ix.b]

\* the result of a Cycle::sample call that wrote x from what read records,
\* and whose remaining slots gave rest
Cycle_push(x, read, rest) ==
    [cursor |-> rest.cursor, out |-> <<x>> \o rest.out,
     log |-> <<read>> \o rest.log, panic |-> rest.panic]

\* Cycle::sample that advances the cursor before it reads it
RECURSIVE Cycle_sample_advanceFirst(_, _, _, _)
Cycle_sample_advanceFirst(f, c, interval, n) ==
    IF n = 0 THEN [cursor |-> c, out |-> <<>>, log |-> <<>>, panic |-> FALSE]
    ELSE LET ds == interval * rate(f)
             c2 == frem(c + ds, Len(f.samples) * Den)
         IN  Cycle_push(Cycle_interpolate(f, c2), Cycle_read(f, c2, interval),
                        Cycle_sample_advanceFirst(f, c2, interval, n - 1))

\* Cycle::sample that does not store the cursor after the last slot of out
RECURSIVE Cycle_sample_dropLast(_, _, _, _)
Cycle_sample_dropLast(f, c, interval, n) ==
    IF n = 0 THEN [cursor |-> c, out |-> <<>>, log |-> <<>>, panic |-> FALSE]
    ELSE IF n = 1
    THEN [cursor |-> c, out |-> <<Cycle_interpolate(f, c)>>,
          log |-> <<Cycle_read(f, c, interval)>>, panic |-> FALSE]
    ELSE LET ds == interval * rate(f)
             c2 == frem(c + ds, Len(f.samples) * Den)
         IN  Cycle_push(Cycle_interpolate(f, c), Cycle_read(f, c, interval),
                        Cycle_sample_dropLast(f, c2, interval, n - 1))

\* Cycle::sample on a Cycle whose cursor is c, with an out of n slots: the
\* cursor it leaves, the frames it writes and, per slot, what it read.  A
\* slice index out of range panics: the call ends there, the slot unwritten.
RECURSIVE Cycle_sample(_, _, _, _)
Cycle_sample(f, c, interval, n) ==
    IF n = 0 THEN [cursor |-> c, out |-> <<>>, log |-> <<>>, panic |-> FALSE]
    ELSE LET ds == interval * rate(f)
             read == Cycle_read(f, c, interval)
         IN  IF ~(InRange(f, read.a) /\ InRange(f, read.b))
             THEN [cursor |-> c, out |-> <<>>, log |-> <<read>>, panic |-> TRUE]
             ELSE LET x == Cycle_interpolate(f, c)
                      c2 == frem(c + ds, Len(f.samples) * Den)
                  IN  Cycle_push(x, read, Cycle_sample(f, c2, interval, n - 1))

\* cycle.sample(interval, out) that also stores into the shared buffer
CycleSample_writesBuffer(most) ==
    /\ ~cyclePanic
    /\ \E interval \in Intervals, n \in OutLens :
          /\ cycleAsked + n <= most
          /\ \E r \in {Cycle_sample(frames, cursor, interval, n)} :
                 /\ cursor' = r.cursor
                 /\ cycleOut' = cycleOut \o r.out
                 /\ cycleLog' = cycleLog \o r.log
                 /\ cyclePanic' = r.panic
          /\ cycleIv' = IF cycleIv \in {0, interval} THEN interval ELSE 0 - 1
          /\ cycleAsked' = cycleAsked + n
    /\ cycleCalls' = cycleCalls + 1
    /\ frames' = [frames EXCEPT !.samples[1] = ZERO]
    /\ UNCHANGED <<obs, stopVars, sigVars, start, stored>>

\* a call of cycle.sample(interval, out) with len(out) = n, while the Cycle
\* has been asked for at most `most` frames in all
CycleSampleWithin(most) ==
    /\ ~cyclePanic
    /\ \E interval \in Intervals, n \in OutLens :
          /\ cycleAsked + n <= most
          /\ \E r \in {Cycle_sample(frames, cursor, interval, n)} :
                 /\ cursor' = r.cursor
                 /\ cycleOut' = cycleOut \o r.out
                 /\ cycleLog' = cycleLog \o r.log
                 /\ cyclePanic' = r.panic
          /\ cycleIv' = IF cycleIv \in {0, interval} THEN interval ELSE 0 - 1
          /\ cycleAsked' = cycleAsked + n
    /\ cycleCalls' = cycleCalls + 1
    /\ UNCHANGED <<frames, obs, stopVars, sigVars, start, stored>>

CycleSample == CycleSampleWithin(MaxFrames)

NextCycle == CycleSample

SpecCycle == InitZero /\ [][NextCycle]_vars

\* every call so far used one interval, and interval * rate is one sample
UnitStep == cycleIv > 0 /\ cycleIv * rate(frames) = Den

\* C6: for a fresh Cycle over a buffer of length L whose step per output
\* frame is exactly one sample, output frame i is buffer frame i mod L.
C6_CycleWraparound ==
    UnitStep
    => \A i \in 1..Len(cycleOut) :
          cycleOut[i] = frames.samples[((i - 1) % Len(frames.samples)) + 1] * Den

\* 5 frames sampled at unit step from [1, 2, 3] (tests::wrap_single)
C6_Witness ==
    /\ UnitStep
    /\ frames.samples = <<1, 2, 3>>
    /\ Len(cycleOut) = 5
    /\ cycleOut[4] = 1 * Den

\* C7: the frames written by two or more consecutive sample calls with the
\* same interval, and the cursor they leave, are those of one sample call
\* of the same total length on a fresh Cycle.
C7_CycleSplitInvariance ==
    cycleIv > 0
    => LET one == Cycle_sample(frames, 0, cycleIv, Len(cycleOut))
       IN  /\ cycleOut = one.out
           /\ cursor = one.cursor

\* at least two calls, a step that is no whole sample, past the wrap
C7_Witness ==
    /\ cycleIv > 0
    /\ cycleCalls >= 2
    /\ (cycleIv * rate(frames)) % Den # 0
    /\ Len(cycleOut) * cycleIv * rate(frames) > Len(frames.samples) * Den

\* ---------------------------------------------------------- Stop actions
\* StopControl::pause
pause ==
    /\ state' = PAUSE
    /\ lastOp' = "pause"
    /\ stored' = stored \cup {PAUSE}
    /\ UNCHANGED <<frames, obs, cycleVars, sigVars, t, start, consumed, fsCall>>

\* StopControl::resume
resume ==
    /\ state' = PLAY
    /\ lastOp' = "resume"
    /\ stored' = stored \cup {PLAY}
    /\ UNCHANGED <<frames, obs, cycleVars, sigVars, t, start, consumed, fsCall>>

\* Stop::stop, StopControl::stop
stop ==
    /\ state' = STOP
    /\ lastOp' = "stop"
    /\ stored' = stored \cup {STOP}
    /\ UNCHANGED <<frames, obs, cycleVars, sigVars, t, start, consumed, fsCall>>

\* Stop::sample(interval, out) with len(out) = n: delegates to the inner
\* FramesSignal whatever the state is; `most` caps the time consumed
Stop_sampleWithin(most) ==
    /\ \E interval \in Intervals, n \in OutLens :
          /\ consumed + interval * n <= most
          /\ \E r \in {Stop_sample_inner(state, frames, t, interval, n)} :
                 /\ t' = r.t
                 /\ fsCall' = [called |-> TRUE, st |-> state, t0 |-> t,
                               t1 |-> r.t, s0 |-> t * frames.rate,
                               interval |-> interval, out |-> r.out]
          /\ consumed' = consumed + interval * n
    /\ UNCHANGED <<frames, obs, cycleVars, sigVars, state, start, lastOp, stored>>

Stop_sample == Stop_sampleWithin(MaxTime)

NextStop == pause \/ resume \/ stop \/ Stop_sample

SpecStop == Init /\ [][NextStop]_vars

\* C1: once stop() has been performed, no pause(), resume() or stop() makes
\* the state leave Stopped.
C1_StoppedIsTerminal == [][state = STOP => state' = STOP]_vars

\* C2: remaining() is the inner signal's remaining() when Playing, infinite
\* when Paused and 0 when Stopped; so it is infinite after pause(), the
\* inner signal's value after resume() (and on a fresh Stop) and 0 after
\* stop().
C2_RemainingByState ==
    LET inner == Finite(FramesSignal_remaining(frames, t))
    IN  /\ state \in {PLAY, PAUSE, STOP}
        /\ state = PLAY => Stop_remaining = inner
        /\ state = PAUSE => Stop_remaining = INFINITY
        /\ state = STOP => Stop_remaining = Finite(0)
        /\ lastOp = "pause" => Stop_remaining = INFINITY
        /\ lastOp \in {"new", "resume"} => Stop_remaining = inner
        /\ lastOp = "stop" => Stop_remaining = Finite(0)

\* paused with a non-zero inner remaining time, after some playback
C2_Witness ==
    /\ lastOp = "pause"
    /\ fsCall.called
    /\ FramesSignal_remaining(frames, t) # 0

Duration == (Len(frames.samples) * Den) \div rate(frames)

\* C9: a FramesSignal started at offset 0 that has consumed time e reports
\* remaining() = D - e: zero exactly when e = D and negative once e > D.
C9_RemainingLinear ==
    start = 0
    => LET rem == FramesSignal_remaining(frames, t)
       IN  /\ rem = Duration - consumed
           /\ rem = 0 <=> consumed = Duration
           /\ consumed > Duration => rem < 0

\* two seconds of a one-second buffer were consumed in two or more calls
C9_Witness ==
    /\ start = 0
    /\ consumed = 2 * Duration
    /\ consumed > fsCall.interval * Len(fsCall.out)

\* C10: once the playback position is at or beyond the buffer length, every
\* frame sample writes is the zero frame and remaining() is not positive.
C10_SilencePastEnd ==
    LET end == Len(frames.samples) * Den
    IN  /\ (fsCall.called /\ fsCall.s0 >= end)
           => \A i \in 1..Len(fsCall.out) : fsCall.out[i] = ZERO
        /\ t * frames.rate >= end => FramesSignal_remaining(frames, t) <= 0

\* a call of two or more slots that started exactly at the end
C10_Witness ==
    /\ fsCall.called
    /\ fsCall.s0 = Len(frames.samples) * Den
    /\ Len(fsCall.out) >= 2

\* C11: a Stop::sample call made while Paused or Stopped writes the frames
\* and advances the inner signal as the same call made while Playing does.
C11_SampleIgnoresState ==
    fsCall.called
    => LET playing == FramesSignal_sample(frames, fsCall.t0, fsCall.interval,
                                          Len(fsCall.out))
       IN  /\ fsCall.out = playing.out
           /\ fsCall.t1 = playing.t

\* a call made while Paused that wrote a frame that is not silence, and a
\* state change since
C11_Witness ==
    /\ fsCall.called
    /\ fsCall.st = PAUSE
    /\ \E i \in 1..Len(fsCall.out) : fsCall.out[i] # ZERO
    /\ state = STOP

\* C13: Frames::interpolate at a whole-number position k returns exactly
\* the stored frame k when 0 <= k < length, and the zero frame at every
\* whole-number position outside that range.
C13_WholePositions ==
    (obs.op = "interpolate" /\ obs.s % Den = 0)
    => LET k == obs.s \div Den
       IN  obs.val = IF 0 <= k /\ k < Len(frames.samples)
                     THEN frames.samples[k + 1] * Den
                     ELSE ZERO

\* interpolate was called at the whole position of the last frame of a
\* buffer of two or more frames
C13_Witness ==
    /\ obs.op = "interpolate"
    /\ obs.s = (Len(frames.samples) - 1) * Den
    /\ Len(frames.samples) >= 2
    /\ obs.val = frames.samples[Len(frames.samples)] * Den

\* the cursor after the i-th frame the Cycle has written
CursorAfter(i) == IF i < Len(cycleLog) THEN cycleLog[i + 1].c ELSE cursor

\* C14: for a non-empty buffer and positive intervals the cursor is 0 at
\* construction, lies in [0, length) after every output frame of every
\* sample call, and each advance sets it to
\* (cursor + interval * rate) mod length.
C14_CursorInvariant ==
    LET length == Len(frames.samples) * Den
    IN  /\ cycleCalls = 0 => cursor = 0
        /\ Len(cycleLog) > 0 => cycleLog[1].c = 0
        /\ \A i \in 1..Len(cycleLog) :
              /\ CursorAfter(i) >= 0
              /\ CursorAfter(i) < length
              /\ CursorAfter(i) =
                    (cycleLog[i].c + cycleLog[i].interval * rate(frames))
                        % length

\* an advance carried the cursor past the end of the buffer and left it
\* strictly between two frames' worth of the start
C14_Witness ==
    /\ cycleCalls >= 2
    /\ \E i \in 1..Len(cycleLog) :
          /\ cycleLog[i].c + cycleLog[i].interval * rate(frames)
                > Len(frames.samples) * Den
          /\ CursorAfter(i) > 0

\* C15: when the cursor lies in [length - 1, length) the Cycle's output is
\* the interpolation of the last frame with frame 0, weighted by the
\* cursor's fractional part; for any other cursor it interpolates frames
\* floor(cursor) and floor(cursor) + 1.
C15_WrapAwareNeighbour ==
    LET length == Len(frames.samples)
    IN  \A i \in 1..Len(cycleOut) :
            LET c == cycleLog[i].c
                k == c \div Den
            IN  cycleOut[i] =
                    IF k = length - 1
                    THEN lerp(frames.samples[length], frames.samples[1],
                              c % Den)
                    ELSE lerp(frames.samples[k + 1], frames.samples[k + 2],
                              c % Den)

\* a frame was written from a cursor strictly between the last frame and
\* the loop point, in a buffer whose last and first frames differ
C15_Witness ==
    LET length == Len(frames.samples)
    IN  /\ length >= 2
        /\ frames.samples[length] # frames.samples[1]
        /\ \E i \in 1..Len(cycleOut) :
              /\ cycleLog[i].c \div Den = length - 1
              /\ cycleLog[i].c % Den # 0
              /\ cycleOut[i] # frames.samples[length] * Den

\* C16: each sample(interval, out) call of the FramesSignal increases its
\* position by exactly interval * len(out), after writing slot i from
\* position s0 + step * i; so with positive intervals the position never
\* decreases and equals the start offset plus the total time consumed.
C16_PositionAdvance ==
    /\ t = start + consumed
    /\ fsCall.called
       => LET step == fsCall.interval * frames.rate
          IN  /\ fsCall.t1 = fsCall.t0 + fsCall.interval * Len(fsCall.out)
              /\ fsCall.t1 >= fsCall.t0
              /\ fsCall.t1 = t
              /\ \A i \in 1..Len(fsCall.out) :
                    fsCall.out[i] =
                        interpolate(frames,
                                    fsCall.t0 * frames.rate + step * (i - 1))

\* a signal created at a negative offset has been sampled in more than one
\* call, the last of two or more frames, one of them not silent
C16_Witness ==
    /\ start < 0
    /\ fsCall.called
    /\ fsCall.t0 > start
    /\ consumed > fsCall.interval * Len(fsCall.out)
    /\ Len(fsCall.out) >= 2
    /\ \E i \in 1..Len(fsCall.out) : fsCall.out[i] # ZERO

\* ------------------------------------------- a second FramesSignal, shared
\* a call of sample(interval, out), len(out) = n, on the FramesSignal that
\* is not wrapped in the Stop, while it has written at most `most` frames in
\* all
SigSampleWithin(most) ==
    /\ \E interval \in Intervals, n \in OutLens :
          /\ Len(sigOut) + n <= most
          /\ \E r \in {FramesSignal_sample(frames, sigT, interval, n)} :
                 /\ sigT' = r.t
                 /\ sigOut' = sigOut \o r.out
          /\ sigIv' = IF sigIv \in {0, interval} THEN interval ELSE 0 - 1
    /\ sigCalls' = sigCalls + 1
    /\ UNCHANGED <<frames, obs, cycleVars, stopVars, start, stored>>

SigSample == SigSampleWithin(MaxFrames)

NextSignal == SigSample

SpecSignal == Init /\ [][NextSignal]_vars

\* most frames each signal writes when the signals run interleaved
MaxShared == 2

\* Cycle::sample and FramesSignal::sample calls, interleaved, on a Cycle and
\* a FramesSignal that share one Frames
NextShared ==
    \/ CycleSampleWithin(MaxShared)
    \/ SigSampleWithin(MaxShared)

SpecShared == InitZero /\ [][NextShared]_vars

\* C12: no sample (or remaining) call of a Cycle or FramesSignal that shares
\* the buffer changes its rate, its length or a stored frame.
C12_BufferImmutable == [][frames' = frames]_vars

\* the Cycle has sampled the shared buffer twice and the FramesSignal has
\* sampled it in between or around those calls
C12_Witness ==
    /\ cycleCalls >= 2
    /\ sigCalls >= 1
    /\ Len(sigOut) < cycleAsked

\* ------------------------------------- the state word under concurrency
\* number of StopControl handles besides the Stop itself
MaxHandles == 2
\* most time the render thread consumes while the handles run
MaxRace == 1

\* who calls: 0 is the Stop on the render thread, 1.. are StopControl handles
Callers == 0..MaxHandles

\* the queries a caller has: remaining() is the Stop's only
Queries(c) ==
    IF c = 0 THEN {"remaining", "is_paused", "is_stopped"}
    ELSE {"is_paused", "is_stopped"}

\* a store that lands in part: the bits of the old and the new value mixed
StoreState_torn(c, v) ==
    /\ c = 0 => v = STOP
    /\ state' = IF {state, v} = {PAUSE, STOP} THEN PAUSE + STOP ELSE v
    /\ lastOp' = IF v = PAUSE THEN "pause"
                 ELSE IF v = PLAY THEN "resume" ELSE "stop"
    /\ stored' = stored \cup {v}
    /\ UNCHANGED <<frames, obs, cycleVars, sigVars, t, start, consumed, fsCall>>

\* a store that also rewinds the inner signal to its start when it stops it
StoreState_rewinds(c, v) ==
    /\ c = 0 => v = STOP
    /\ state' = v
    /\ lastOp' = IF v = PAUSE THEN "pause"
                 ELSE IF v = PLAY THEN "resume" ELSE "stop"
    /\ stored' = stored \cup {v}
    /\ t' = IF v = STOP THEN start ELSE t
    /\ UNCHANGED <<frames, obs, cycleVars, sigVars, start, consumed, fsCall>>

\* self.state.store(v, Relaxed) by caller c: pause() stores PAUSE, resume()
\* PLAY and stop() STOP; the Stop itself has stop() only.  One atomic step.
StoreState(c, v) ==
    /\ c = 0 => v = STOP
    /\ IF v = PAUSE THEN pause ELSE IF v = PLAY THEN resume ELSE stop

\* a query by caller c: one self.state.load(Relaxed) and the result computed
\* from the value loaded (and, for remaining(), from the inner signal's
\* position t, which only the calling render thread advances)
QueryState(c, q) ==
    /\ q \in Queries(c)
    /\ obs' = [op |-> q, by |-> c, v |-> state,
               t |-> IF q = "remaining" THEN t ELSE 0,
               val |-> IF q = "remaining" THEN Stop_remaining
                       ELSE IF q = "is_paused" THEN is_paused
                       ELSE is_stopped]
    /\ UNCHANGED <<frames, cycleVars, stopVars, sigVars, start, stored>>

Store == \E c \in Callers, v \in {PLAY, PAUSE, STOP} : StoreState(c, v)

Query == \E c \in Callers, q \in {"remaining", "is_paused", "is_stopped"} :
            QueryState(c, q)

RenderSample == Stop_sampleWithin(MaxRace)

NextRace == Store \/ Query \/ RenderSample

SpecRace == InitZero /\ [][NextRace]_vars

\* C17: under every interleaving of pause(), resume() and stop() calls from
\* two or more control handles with the render thread's sample() and
\* remaining() calls, the state is always exactly one of Playing, Paused or
\* Stopped and is the value of the latest store as a whole; every
\* remaining(), is_paused() and is_stopped() result is the one defined for a
\* value that was the initial state or was stored by some control call; and
\* no call waits: every store and every query can be taken in every state.
C17_AtomicState ==
    /\ state \in {PLAY, PAUSE, STOP}
    /\ stored \subseteq {PLAY, PAUSE, STOP}
    /\ state = IF lastOp = "pause" THEN PAUSE
               ELSE IF lastOp = "stop" THEN STOP ELSE PLAY
    /\ obs.op \in {"remaining", "is_paused", "is_stopped"}
       => /\ obs.v \in stored
          /\ obs.op = "remaining"
             => obs.val = IF obs.v = PLAY
                          THEN Finite(FramesSignal_remaining(frames, obs.t))
                          ELSE IF obs.v = PAUSE THEN INFINITY
                          ELSE Finite(0)
          /\ obs.op = "is_paused" => obs.val = (obs.v = PAUSE)
          /\ obs.op = "is_stopped" => obs.val = (obs.v = STOP)
    /\ \A c \in Callers :
          /\ ENABLED StoreState(c, STOP)
          /\ c > 0 => ENABLED StoreState(c, PAUSE) /\ ENABLED StoreState(c, PLAY)
          /\ \A q \in Queries(c) : ENABLED QueryState(c, q)

\* the render thread got an infinite remaining() from a Paused state that a
\* later stop() has replaced, after all three values were stored and the
\* inner signal was sampled
C17_Witness ==
    /\ obs.op = "remaining"
    /\ obs.v = PAUSE
    /\ obs.val = INFINITY
    /\ state = STOP
    /\ stored = {PLAY, PAUSE, STOP}
    /\ fsCall.called

\* C18: pause(), resume(), stop(), is_paused(), is_stopped() and remaining()
\* leave the inner signal's position and output unchanged, and Stop::sample
\* leaves the lifecycle state unchanged.
C18_StateAndPositionIndependent ==
    [][ /\ (state' # state \/ lastOp' # lastOp \/ stored' # stored
            \/ obs' # obs)
           => (t' = t /\ consumed' = consumed /\ fsCall' = fsCall)
        /\ (t' # t \/ consumed' # consumed \/ fsCall' # fsCall)
           => (state' = state /\ lastOp' = lastOp /\ stored' = stored) ]_vars

\* the inner signal was sampled while Paused, then stopped, and a handle's
\* is_stopped() has seen it, the position being where the sample call left it
C18_Witness ==
    /\ fsCall.called
    /\ fsCall.st = PAUSE
    /\ state = STOP
    /\ obs.op = "is_stopped"
    /\ obs.by > 0
    /\ obs.val
    /\ t = fsCall.t1
    /\ t > start

C20_CycleReadsInBounds ==
    LET length == Len(frames.samples)
    IN  /\ ~cyclePanic
        /\ Len(cycleOut) = cycleAsked
        /\ Len(cycleLog) = cycleAsked
        /\ \A i \in 1..Len(cycleLog) :
              /\ cycleLog[i].a = cycleLog[i].c \div Den
              /\ cycleLog[i].b = (cycleLog[i].a + 1) % length
              /\ cycleLog[i].a \in 0..(length - 1)
              /\ cycleLog[i].b \in 0..(length - 1)

\* in its second or a later call the Cycle read the last frame of a buffer
\* of two or more frames together with frame 0, and went on past the wrap
C20_Witness ==
    /\ cycleCalls >= 2
    /\ Len(frames.samples) >= 2
    /\ \E i \in 1..Len(cycleLog) :
          /\ i < Len(cycleLog)
          /\ cycleLog[i].a = Len(frames.samples) - 1
          /\ cycleLog[i].b = 0
    /\ Len(cycleOut) = cycleAsked

====
